---- MODULE Spec2Model ----
(***************************************************************************)
(* Ana v1 primitive (src/Ana.py): a single baton circulating on the        *)
(* 6-tile ring A-B-C-D-E-F-A, the task protocol triggered on ARRIVE_C      *)
(* (jump, then ACT attempts), failure escalation with parking, and the     *)
(* shadow / hesitation timers.  One action, Tick, is one iteration of the  *)
(* loop of simulate().                                                     *)
(***************************************************************************)
EXTENDS Integers, Sequences, FiniteSets

\* ---------------------------------------------------------------- bounds
\* Largest values of the parameters of simulate() that Init enumerates.
MaxSteps == 50
MaxHshadow == 3
MaxEmax == 6
MaxTTL == 3

\* ------------------------------------------------------------- constants
N == 6
K == 3
H == 2

Pos == 0 .. (N - 1)
IdxA == 0
IdxB == 1
IdxC == 2

VARIABLES
    S,          \* committed states, one of -1, 0, +1 per tile
    E,          \* shadow timers
    buf,        \* buffered phase signs
    baton_pos,  \* tile holding the baton
    P,          \* task.P: task active
    D,          \* task.D: jump flag
    TTL,        \* task.TTL: successful ACTs remaining
    FAILCOUNT,  \* task.FAILCOUNT
    DIR,        \* task.DIR: "CW" or "CCW"
    PARK,       \* task.PARK: remaining parked ticks
    t,          \* number of ticks performed (the loop variable)
    steps,      \* parameter: number of ticks to simulate
    Hshadow,    \* parameter: shadow latch level
    Emax,       \* parameter: hesitation cap
    events      \* what the header of the last tick printed

vars == <<S, E, buf, baton_pos, P, D, TTL, FAILCOUNT, DIR, PARK, t, steps,
          Hshadow, Emax, events>>

\* ------------------------------------------------------------- helpers
Max(a, b) == IF a >= b THEN a ELSE b
Min(a, b) == IF a <= b THEN a ELSE b
Has(ev, tag) == \E k \in 1 .. Len(ev) : ev[k] = tag

left(i) == (i - 1) % N
right(i) == (i + 1) % N

domain_sign(i) == IF i \in {IdxA, IdxB, IdxC} THEN 1 ELSE -1

effNoBuffer(s, b, i) == s[i]
eff(s, b, i) == IF s[i] = 0 THEN b[i] ELSE s[i]

boundary_strict_effective(s, b, i) == eff(s, b, left(i)) + eff(s, b, right(i)) = 0

step_batonSwapped(pos, direction) == IF direction = "CW" THEN left(pos) ELSE right(pos)
step_baton(pos, direction) == IF direction = "CW" THEN right(pos) ELSE left(pos)

\* 1) decay shadows: one tile, then all tiles
DecayOneUnguarded(e) == e - 1
DecayOneNone(e) == e
DecayOne(e) == IF e > 0 THEN e - 1 ELSE e
Decay(e) == [i \in Pos |-> DecayOne(e[i])]

\* 3) release of the tile the baton leaves, acquire of the tile it enters
ReleaseSkipped(s, old) == s
ReleaseFlipped(s, old) == [s EXCEPT ![old] = 0 - domain_sign(old)]
Release(s, old) == [s EXCEPT ![old] = domain_sign(old)]
Acquire(s, new) == [s EXCEPT ![new] = 0]

\* ACT success: latch on a neighbour of C; ACT failure: hesitation at C
Latch(e, floor) == Max(e, floor)
Hesitate(e, cap) == Min(e + 1, cap)

ReverseKept(direction) == direction
Reverse(direction) == IF direction = "CW" THEN "CCW" ELSE "CW"

EscalatesLate(failcount) == failcount > K
Escalates(failcount) == failcount >= K

\* escalation: flip of the buffered sign of C
FlipBufCSet(b) == [b EXCEPT ![IdxC] = -1]
FlipBufC(b) == [b EXCEPT ![IdxC] = b[IdxC] * (-1)]

ParkedOffByOne(park) == park > 1
Parked(park) == park > 0

BoundaryEvent(lb, rb) ==
    IF lb THEN (IF rb THEN "b(B)=True b(D)=True" ELSE "b(B)=True b(D)=False")
          ELSE (IF rb THEN "b(B)=False b(D)=True" ELSE "b(B)=False b(D)=False")

\* ---------------------------------------------------------------- Init
Init ==
    /\ S = [i \in Pos |-> IF i = IdxA THEN 0 ELSE domain_sign(i)]
    /\ E = [i \in Pos |-> 0]
    /\ buf = [i \in Pos |-> domain_sign(i)]
    /\ baton_pos = IdxA
    /\ P = 1
    /\ D = 1
    /\ TTL \in -1 .. MaxTTL
    /\ FAILCOUNT = 0
    /\ DIR = "CW"
    /\ PARK = 0
    /\ t = 0
    /\ steps \in {-1, 0, MaxSteps}
    /\ Hshadow \in -1 .. MaxHshadow
    /\ Emax \in -1 .. MaxEmax
    /\ events = <<>>

\* ------------------------------------------------------------ the tick
\* 2) parking: the tick ends after the decrement; Ed is E after decay
ParkTickBeforeDecay(Ed) ==
    /\ PARK' = PARK - 1
    /\ E' = E
    /\ events' = <<"PARK">>
    /\ UNCHANGED <<S, buf, baton_pos, P, D, TTL, FAILCOUNT, DIR>>
ParkTickClears(Ed) ==
    /\ PARK' = 0
    /\ E' = Ed
    /\ events' = <<"PARK">>
    /\ UNCHANGED <<S, buf, baton_pos, P, D, TTL, FAILCOUNT, DIR>>
ParkTick(Ed) ==
    /\ PARK' = PARK - 1
    /\ E' = Ed
    /\ events' = <<"PARK">>
    /\ UNCHANGED <<S, buf, baton_pos, P, D, TTL, FAILCOUNT, DIR>>

\* Jump occurrence
JumpKeepsD(Ed) ==
    /\ D' = D
    /\ E' = Ed
    /\ events' = <<"ARRIVE_C", "JUMP">>
    /\ UNCHANGED <<buf, P, TTL, FAILCOUNT, DIR, PARK>>
Jump(Ed) ==
    /\ D' = 0
    /\ E' = Ed
    /\ events' = <<"ARRIVE_C", "JUMP">>
    /\ UNCHANGED <<buf, P, TTL, FAILCOUNT, DIR, PARK>>

\* ACT success: mirror pulse, reset of E(C), TTL decrement, RE-ARM or DONE
ActSuccess(Ed, L, R, lb, rb) ==
    LET E1 == [Ed EXCEPT ![L] = Latch(Ed[L], Hshadow)]
        E2 == [E1 EXCEPT ![R] = Latch(E1[R], Hshadow)]
        E3 == [E2 EXCEPT ![IdxC] = 0]
        ttl == TTL - 1
    IN  /\ E' = E3
        /\ FAILCOUNT' = 0
        /\ TTL' = ttl
        /\ IF ttl > 0
              THEN /\ D' = 1
                   /\ P' = P
                   /\ events' = <<"ARRIVE_C", BoundaryEvent(lb, rb), "ACT_MIRROR",
                                  "TTL", "RE-ARM">>
              ELSE /\ P' = 0
                   /\ D' = 0
                   /\ events' = <<"ARRIVE_C", BoundaryEvent(lb, rb), "ACT_MIRROR",
                                  "TTL", "DONE">>
        /\ UNCHANGED <<buf, DIR, PARK>>

\* ACT failure: hesitation at C, reversal, escalation after K failures
ActFail(Ed, lb, rb) ==
    LET failcount == FAILCOUNT + 1
        head == <<"ARRIVE_C", BoundaryEvent(lb, rb), "HESITATE", "REV", "FAIL">>
    IN  /\ E' = [Ed EXCEPT ![IdxC] = Hesitate(Ed[IdxC], Emax)]
        /\ DIR' = Reverse(DIR)
        /\ IF Escalates(failcount)
              THEN /\ PARK' = H
                   /\ FAILCOUNT' = 0
                   /\ buf' = FlipBufC(buf)
                   /\ events' = Append(head, "ESCALATE")
              ELSE /\ FAILCOUNT' = failcount
                   /\ events' = head
                   /\ UNCHANGED <<buf, PARK>>
        /\ UNCHANGED <<P, D, TTL>>

\* 3) move baton (atomic swap), then the occurrence ARRIVE_C
MoveTick(Ed) ==
    LET old == baton_pos
        new == step_baton(baton_pos, DIR)
        S1 == Release(S, old)
        prev == S1[new]
        S2 == Acquire(S1, new)
        arrive_c == new = IdxC /\ prev \in {1, -1}
    IN  /\ S' = S2
        /\ baton_pos' = new
        /\ IF arrive_c /\ P = 1
              THEN IF D = 1
                      THEN Jump(Ed)
                      ELSE LET L == left(new)
                               R == right(new)
                               lb == boundary_strict_effective(S2, buf, L)
                               rb == boundary_strict_effective(S2, buf, R)
                           IN  IF lb /\ rb
                                  THEN ActSuccess(Ed, L, R, lb, rb)
                                  ELSE ActFail(Ed, lb, rb)
              ELSE /\ E' = Ed
                   /\ events' = <<>>
                   /\ UNCHANGED <<buf, P, D, TTL, FAILCOUNT, DIR, PARK>>

\* the body of the loop: decay, then the park check, then move and occurrence
TickBody ==
    LET Ed == Decay(E)
    IN  IF Parked(PARK) THEN ParkTick(Ed) ELSE MoveTick(Ed)

\* one iteration of "for t in range(1, steps + 1)"
Tick ==
    /\ t < steps
    /\ t' = t + 1
    /\ TickBody
    /\ UNCHANGED <<steps, Hshadow, Emax>>

Next == Tick

Spec == Init /\ [][Next]_vars

TypeOK ==
    /\ S \in [Pos -> {-1, 0, 1}]
    /\ buf \in [Pos -> {-1, 1}]
    /\ baton_pos \in Pos
    /\ P \in {0, 1}
    /\ D \in {0, 1}
    /\ DIR \in {"CW", "CCW"}
    /\ PARK \in 0 .. H
    /\ t \in 0 .. MaxSteps

\* ------------------------------------------------------------ properties
IdxD == 3
ActFailed(ev) == Has(ev, "FAIL")
ActSucceeded(ev) == Has(ev, "ACT_MIRROR")
Escalated(ev) == Has(ev, "ESCALATE")

\* C1  Single-baton invariant: in every state exactly one tile holds 0, that
\* tile is baton_pos, and every other tile holds +1 or -1.
C1_SingleBaton ==
    /\ Cardinality({i \in Pos : S[i] = 0}) = 1
    /\ S[baton_pos] = 0
    /\ \A i \in Pos : i # baton_pos => S[i] \in {1, -1}

\* the second escalation has happened: jumps, failures both ways, parking
C1_Witness ==
    /\ Escalated(events)
    /\ buf[IdxC] = 1
    /\ baton_pos = IdxC
    /\ S[IdxC] = 0

\* C2  Shadow bound: for every configuration with Emax >= 1 and Hshadow >= 0
\* (Hshadow > Emax included), every shadow timer stays within 0 .. Emax.
C2_ShadowBound ==
    (Emax >= 1 /\ Hshadow >= 0) => \A i \in Pos : 0 <= E[i] /\ E[i] <= Emax

\* a hesitation has brought E(C) to the cap, with Hshadow above the cap
C2_Witness ==
    /\ Emax = 1
    /\ Hshadow > Emax
    /\ Has(events, "HESITATE")
    /\ E[IdxC] = Emax

\* C3  Termination: a task started with TTL >= 1 performs its TTL successful
\* ACTs and becomes inactive (TTL = 0, P = 0, D = 0) once it has been stepped
\* long enough.  As a final result of the longest run: when the loop of
\* MaxSteps ticks is over (more than a whole period of the run: 8 ticks to the
\* first attempt, then 40 ticks through both signs of buf[C]), no task is
\* still active with budget left (configurations with Hshadow >= 0 and
\* Emax >= 1 only, so that the failure does not rest on a bad configuration).
C3_RunOver == steps = MaxSteps /\ t = steps
C3_ValidConfig == Hshadow >= 0 /\ Emax >= 1
C3_Termination == (C3_RunOver /\ C3_ValidConfig) => ~(P = 1 /\ TTL >= 1)

\* C5  Escalation trigger: a failed ACT raises FAILCOUNT to K if and only if
\* that tick emits ESCALATE, sets PARK = H, resets FAILCOUNT to 0 and flips
\* buf[C]; FAILCOUNT is within 0 .. K-1 in every state, and a tick without
\* ESCALATE neither raises PARK nor changes buf[C].
C5_FailcountRange == FAILCOUNT \in 0 .. (K - 1)
C5_Step ==
    LET reaches == ActFailed(events') /\ FAILCOUNT + 1 = K
        escalate == Escalated(events')
        effect == /\ PARK' = H
                  /\ FAILCOUNT' = 0
                  /\ buf'[IdxC] = 0 - buf[IdxC]
    IN  /\ reaches <=> (escalate /\ effect)
        /\ escalate => effect
        /\ ~escalate => (PARK' <= PARK /\ buf'[IdxC] = buf[IdxC])
C5_EscalationTrigger == []C5_FailcountRange /\ [][C5_Step]_vars

\* the tick of the first escalation
C5_Witness ==
    /\ Escalated(events)
    /\ PARK = H
    /\ FAILCOUNT = 0
    /\ buf[IdxC] = -1

\* C6  Park freezes movement: a tick that starts with PARK > 0 leaves
\* baton_pos, S, buf and DIR as they were, processes no occurrence (the task
\* fields are untouched and only the PARK marker is emitted), and lowers PARK
\* by exactly 1.
C6_Step ==
    PARK > 0 =>
        /\ baton_pos' = baton_pos
        /\ S' = S
        /\ buf' = buf
        /\ DIR' = DIR
        /\ PARK' = PARK - 1
        /\ events' = <<"PARK">>
        /\ UNCHANGED <<P, D, TTL, FAILCOUNT>>
C6_ParkFreezes == [][C6_Step]_vars

\* the last parked tick of a parking has been performed
C6_Witness ==
    /\ events = <<"PARK">>
    /\ PARK = 0
    /\ baton_pos = IdxC

\* C7  Decay monotonicity: on every tick, every tile on which neither the
\* latch (ACT success, B and D) nor the hesitation (ACT failure, C) is applied
\* has E after the tick equal to max(0, E before - 1).
C7_Step ==
    \A i \in Pos :
        LET latched == ActSucceeded(events') /\ i \in {IdxB, IdxD}
            hesitated == Has(events', "HESITATE") /\ i = IdxC
        IN  (~latched /\ ~hesitated) => E'[i] = Max(0, E[i] - 1)
C7_DecayMonotonicity == [][C7_Step]_vars

\* C8  Tick ordering: decay comes before the park check and before the
\* occurrence handling: on a parked tick every positive E[i] drops by 1, and
\* on a failed-ACT tick the hesitation is added to the decayed value, so that
\* E[C] after = min(max(0, E[C] before - 1) + 1, Emax).
C8_Step ==
    /\ PARK > 0 => \A i \in Pos : E[i] > 0 => E'[i] = E[i] - 1
    /\ ActFailed(events') => E'[IdxC] = Min(Max(0, E[IdxC] - 1) + 1, Emax)
    /\ PARK > 0 => (baton_pos' = baton_pos /\ events' = <<"PARK">>)
C8_TickOrdering == [][C8_Step]_vars

\* the first parked tick after an escalation: the hesitation left at C by the
\* failed ACT has decayed although the baton did not move
C8_Witness ==
    /\ Emax >= 1
    /\ events = <<"PARK">>
    /\ PARK = H - 1
    /\ baton_pos = IdxC
    /\ E[IdxC] = 0

\* C9  Three-failure scenario: in a run of K consecutive failed ACTs from
\* FAILCOUNT = 0 every failure reverses DIR, only the K-th emits ESCALATE,
\* flips buf[C] and sets PARK = H, the others leave buf and PARK alone; no
\* other tick touches FAILCOUNT.  For K = 3 the run reverses DIR an odd number
\* of times, so DIR after the run is the opposite of DIR before it: with DIR
\* starting CW and buf[C] starting +1, DIR is CW exactly when the number of
\* failures so far (3 per flip of buf[C], plus FAILCOUNT) is even.
C9_Parity ==
    K = 3 => ((DIR = "CW") <=>
                ((FAILCOUNT + (IF buf[IdxC] = 1 THEN 0 ELSE 1)) % 2 = 0))
C9_Step ==
    /\ ActFailed(events') =>
          /\ DIR' # DIR
          /\ Escalated(events') <=> (FAILCOUNT = K - 1)
          /\ FAILCOUNT = K - 1 =>
                (buf'[IdxC] = 0 - buf[IdxC] /\ PARK' = H /\ FAILCOUNT' = 0)
          /\ FAILCOUNT < K - 1 =>
                (buf' = buf /\ PARK' = PARK /\ FAILCOUNT' = FAILCOUNT + 1)
    /\ (~ActFailed(events') /\ ~ActSucceeded(events')) =>
          (FAILCOUNT' = FAILCOUNT /\ ~Escalated(events') /\ DIR' = DIR)
C9_ThreeFailures == []C9_Parity /\ [][C9_Step]_vars

\* the third failure of the first run: DIR was CW before the first failure
C9_Witness ==
    /\ Escalated(events)
    /\ DIR = "CCW"
    /\ buf[IdxC] = -1
    /\ PARK = H
    /\ FAILCOUNT = 0
    /\ t = 20

\* C10  Default-config opening trace: tick 1 moves the baton A->B with no
\* event; tick 2 moves it B->C emitting exactly ARRIVE_C, JUMP and leaves
\* D = 0, TTL = 3, FAILCOUNT = 0, DIR = CW, all E = 0; the next arrival at C
\* (tick 8) is an ACT attempt whose boundary results are those of B and D.
C10_Default == Hshadow = 3 /\ Emax = 6 /\ TTL = 3
C10_OpeningTrace ==
    C10_Default =>
        /\ t = 0 => /\ S = [i \in Pos |-> IF i = 0 THEN 0 ELSE IF i < 3 THEN 1 ELSE -1]
                    /\ baton_pos = IdxA
                    /\ DIR = "CW"
                    /\ D = 1
        /\ t = 1 => /\ baton_pos = IdxB
                    /\ events = <<>>
                    /\ D = 1
        /\ t = 2 => /\ baton_pos = IdxC
                    /\ events = <<"ARRIVE_C", "JUMP">>
                    /\ D = 0
                    /\ TTL = 3
                    /\ FAILCOUNT = 0
                    /\ DIR = "CW"
                    /\ \A i \in Pos : E[i] = 0
        /\ t \in 3 .. 7 => /\ baton_pos # IdxC
                           /\ events = <<>>
                           /\ D = 0
        /\ t = 8 => /\ baton_pos = IdxC
                    /\ Len(events) >= 2
                    /\ events[1] = "ARRIVE_C"
                    /\ events[2] = BoundaryEvent(eff(S, buf, IdxA) + eff(S, buf, IdxC) = 0,
                                                 eff(S, buf, IdxC) + eff(S, buf, 4) = 0)
                    /\ ~Has(events, "JUMP")

\* the ACT attempt of tick 8 under the default configuration
C10_Witness ==
    /\ C10_Default
    /\ t = 8
    /\ baton_pos = IdxC
    /\ D = 0
    /\ events[2] = "b(B)=False b(D)=True"

\* C12  Configuration errors are rejected before any tick: with a
\* non-positive tick count or a negative Hshadow, TTL or Emax the engine
\* performs no tick and changes no state.
C12_ConfigRejected ==
    (steps <= 0 \/ Hshadow < 0 \/ TTL < 0 \/ Emax < 0) =>
        /\ t = 0
        /\ baton_pos = IdxA
        /\ events = <<>>
        /\ D = 1

\* C13  Jump-before-act protocol: while the task is active an arrival at C
\* with D = 1 performs only the jump (D becomes 0, E only decays, DIR,
\* FAILCOUNT, TTL, PARK and buf are unchanged, no boundary result is
\* emitted); an arrival with D = 0 performs exactly one ACT attempt; D goes
\* back to 1 only in an ACT success that leaves TTL > 0; a failed attempt
\* leaves D = 0, so the retry needs no new jump; no other tick emits ARRIVE_C.
C13_Arrival == PARK = 0 /\ P = 1 /\ baton_pos' = IdxC
C13_Step ==
    /\ (C13_Arrival /\ D = 1) =>
          /\ events' = <<"ARRIVE_C", "JUMP">>
          /\ D' = 0
          /\ \A i \in Pos : E'[i] = (IF E[i] > 0 THEN E[i] - 1 ELSE E[i])
          /\ UNCHANGED <<DIR, FAILCOUNT, TTL, PARK, buf, P>>
    /\ (C13_Arrival /\ D = 0) =>
          /\ Len(events') >= 3
          /\ events'[1] = "ARRIVE_C"
          /\ events'[2] \in {BoundaryEvent(x, y) : x, y \in BOOLEAN}
          /\ ActFailed(events') # ActSucceeded(events')
          /\ ~Has(events', "JUMP")
    /\ (D = 0 /\ D' = 1) => (ActSucceeded(events') /\ TTL' > 0)
    /\ ActFailed(events') => (D = 0 /\ D' = 0)
    /\ ~C13_Arrival => ~Has(events', "ARRIVE_C")
C13_JumpBeforeAct == [][C13_Step]_vars

\* the second failed ACT after the single jump: retried with D still 0
C13_Witness ==
    /\ ActFailed(events)
    /\ FAILCOUNT = 2
    /\ D = 0
    /\ baton_pos = IdxC

\* C14  Parking lasts exactly the configured duration: the tick of an
\* ESCALATE leaves the baton on C with PARK = H; each of the next H ticks is
\* a parked tick that keeps the baton on C and lowers PARK by 1 (the failed
\* ACTs come 6 ticks apart, so an escalation falls on every 20th tick and the
\* parked ticks are exactly the H ticks after it); the tick after the last
\* parked tick moves the baton one step off C in the direction the escalating
\* failure left in DIR, with D still 0.
C14_ParkedTicks ==
    /\ (events = <<"PARK">>) <=> (t >= 20 /\ t % 20 \in 1 .. H)
    /\ (events = <<"PARK">>) => (baton_pos = IdxC /\ PARK < H)
    /\ Escalated(events) => (PARK = H /\ baton_pos = IdxC /\ t % 20 = 0)
C14_Step ==
    /\ PARK > 0 =>
          (baton_pos = IdxC /\ baton_pos' = IdxC /\ PARK' = PARK - 1 /\ DIR' = DIR)
    /\ (PARK = 0 /\ (events = <<"PARK">> \/ Escalated(events))) =>
          /\ baton_pos' = (IF DIR = "CW" THEN IdxD ELSE IdxB)
          /\ DIR' = DIR
          /\ D = 0
          /\ D' = 0
          /\ events' = <<>>
C14_ParkingDuration == []C14_ParkedTicks /\ [][C14_Step]_vars

\* the tick after the first parking: escalation at tick 20 reversed DIR to
\* CCW, ticks 21 and 22 were parked, tick 23 moved the baton C->B
C14_Witness ==
    /\ t = 20 + H + 1
    /\ baton_pos = IdxB
    /\ DIR = "CCW"
    /\ D = 0
    /\ PARK = 0
    /\ events = <<>>

\* C15  Direction changes exactly on failed ACTs: DIR is flipped in every
\* tick whose ACT attempt fails and is unchanged in every other tick; on
\* every non-parked tick the baton moves exactly one ring step in the DIR
\* held at the start of the tick, and on a parked tick it does not move.
C15_Step ==
    /\ ActFailed(events') => (DIR' # DIR /\ DIR' \in {"CW", "CCW"})
    /\ ~ActFailed(events') => DIR' = DIR
    /\ PARK = 0 =>
          baton_pos' = (IF DIR = "CW" THEN (baton_pos + 1) % N
                                      ELSE (baton_pos + N - 1) % N)
    /\ PARK > 0 => baton_pos' = baton_pos
C15_DirectionChanges == [][C15_Step]_vars

\* the second failure: the baton came back to C travelling CCW and the
\* failure flipped DIR to CW again
C15_Witness ==
    /\ ActFailed(events)
    /\ FAILCOUNT = 2
    /\ DIR = "CW"
    /\ buf[IdxC] = 1
    /\ baton_pos = IdxC

\* C16  Buffer frame: buf[i] is the domain sign of i for every tile but C and
\* buf[C] is +1 or -1; buf[C] changes exactly in the ticks that emit
\* ESCALATE, each of which negates it, so that buf[C] is +1 after an even
\* number of escalations and -1 after an odd number (escalations fall on
\* every 20th tick, so t \div 20 of them have happened after tick t).
C16_Buffers ==
    /\ \A i \in Pos : i # IdxC => buf[i] = (IF i < 3 THEN 1 ELSE -1)
    /\ buf[IdxC] \in {1, -1}
    /\ Escalated(events) <=> (t > 0 /\ t % 20 = 0)
    /\ buf[IdxC] = (IF (t \div 20) % 2 = 0 THEN 1 ELSE -1)
C16_Step ==
    /\ Escalated(events') => buf'[IdxC] = 0 - buf[IdxC]
    /\ ~Escalated(events') => buf' = buf
C16_BufferFrame == []C16_Buffers /\ [][C16_Step]_vars

\* the second escalation has brought buf[C] back to +1
C16_Witness ==
    /\ Escalated(events)
    /\ t = 40
    /\ buf[IdxC] = 1
    /\ FAILCOUNT = 0

\* C18  Every tile other than the baton's holds exactly its domain sign (+1
\* for A, B, C and -1 for D, E, F); so the polarity found at the destination
\* of a move is +1 or -1, and every move into C while the task is active
\* fires ARRIVE_C.
C18_DomainSigns ==
    \A i \in Pos : i # baton_pos => S[i] = (IF i < 3 THEN 1 ELSE -1)
C18_Step ==
    PARK = 0 =>
        /\ baton_pos' # baton_pos
        /\ S[baton_pos'] \in {1, -1}
        /\ (baton_pos' = IdxC /\ P = 1) =>
              (Len(events') >= 1 /\ events'[1] = "ARRIVE_C")
C18_ReleasedPolarity == []C18_DomainSigns /\ [][C18_Step]_vars

\* the baton has entered C from D (travelling CCW) and ARRIVE_C fired
C18_Witness ==
    /\ t = 14
    /\ baton_pos = IdxC
    /\ S[IdxD] = -1
    /\ S[IdxB] = 1
    /\ Has(events, "ARRIVE_C")

\* C19  At every ACT attempt exactly one of the two boundary results is
\* true: b(B) holds iff buf[C] = -1 and b(D) holds iff buf[C] = +1 (buf[C] as
\* it is when the attempt is evaluated, before any flip of that tick).
C19_Step ==
    (Has(events', "ARRIVE_C") /\ ~Has(events', "JUMP")) =>
        LET lb == events'[2] \in {"b(B)=True b(D)=True", "b(B)=True b(D)=False"}
            rb == events'[2] \in {"b(B)=True b(D)=True", "b(B)=False b(D)=True"}
        IN  /\ lb <=> (buf[IdxC] = -1)
            /\ rb <=> (buf[IdxC] = 1)
            /\ lb # rb
C19_OneBoundary == [][C19_Step]_vars

\* the first attempt after the first escalation: b(B) is the true one
C19_Witness ==
    /\ t = 28
    /\ Len(events) >= 2
    /\ events[2] = "b(B)=True b(D)=False"
    /\ buf[IdxC] = -1

\* C20  Consecutive arrivals of the baton at C are at least 6 ticks apart:
\* the baton enters C at tick 2 and then at the ticks 8, 14, 20 of every
\* period of 20 ticks (gaps of 6, 6, 6 and 8).  So for Emax >= 1 the shadow
\* E[C] is 0 at the start of every ACT attempt and is never above 1.
C20_Arrived == t > 0 /\ baton_pos = IdxC /\ events # <<"PARK">>
C20_Arrivals ==
    /\ C20_Arrived <=> (t = 2 \/ (t >= 8 /\ t % 20 \in {0, 8, 14}))
    /\ Emax >= 1 => E[IdxC] \in {0, 1}
C20_Step ==
    (Emax >= 1 /\ Has(events', "ARRIVE_C") /\ ~Has(events', "JUMP")) => E[IdxC] = 0
C20_HesitationBound == []C20_Arrivals /\ [][C20_Step]_vars

\* after the second failed ACT, with a cap of 2 or more: E[C] is 1 again
C20_Witness ==
    /\ Emax >= 2
    /\ t = 14
    /\ ActFailed(events)
    /\ FAILCOUNT = 2
    /\ E[IdxC] = 1

====
